---- MODULE Spec2Model ----
(***************************************************************************)
(* Booking form of a single nail studio: the availability resolver         *)
(* (services/mockApi.ts fetchAvailability), the calendar's selection and   *)
(* cutoff filter (components/BookingCalendar.tsx), the remote store they   *)
(* read, the submission of a booking (services/mockApi.ts submitBooking:   *)
(* customer upsert, booking insert, notification) and the session of one   *)
(* user in the form (App.tsx: customer lookup, form fields, confirmation,  *)
(* result page).                                                           *)
(*                                                                         *)
(* Strings are sequences of UTF-16 code units ("11:00" is                  *)
(* <<49,49,58,48,48>>), so that formatting, parsing and the default        *)
(* Array.prototype.sort order are computed, not assumed.  A JS Date in     *)
(* local time is a record [year, month, date, hours, minutes] with the     *)
(* 0-based month of the Date API.                                          *)
(***************************************************************************)
EXTENDS Integers, Sequences, FiniteSets, TLC

VARIABLES
    availabilities,   \* store: table availabilities, rows [date, slots]
    bookings,         \* store: table bookings, rows [booking_date, booking_time, status]
    request,          \* resolver: [year, month] of the last fetchAvailability call
    impl,             \* resolver: which generation of fetchAvailability ran last
    fetchFail,        \* resolver: [cfg, occ] which fetch of the last call returned an error
    outcome,          \* resolver: [status, records] the last call returned or threw
    respConfig,       \* resolver: the rows of the configured-slots response after the call
    dirty,            \* history: a store write happened since the last call
    repeat,           \* history: how the last call relates to the call before it
    clock,            \* calendar: index in Clock of the instant of the last render
    currentViewDate,  \* calendar: [year, month] of the month displayed
    availability,     \* calendar: the loaded records by date key
    loading,          \* calendar: the loading flag
    error,            \* calendar: the error flag (the message is always the same)
    inflight,         \* calendar: the loadData calls awaiting fetchAvailability
    stale,            \* history: which pending and settled calls a later call superseded
    activeDateForSlots, \* calendar: the day whose slot panel is open, or NoDate
    selectedDate,     \* form: the day of the draft, or NoDate
    selectedTime,     \* form: the slot of the draft, or NoSlot
    customers,        \* store: table customers, rows [user_id, name, phone, member_code, is_blacklisted, updated_at]
    webhook,          \* the payloads posted to the notification webhook
    submission,       \* the submitBooking call: [pc, caller, data, payload, calls, customerError, bookingError, notify, result]
    submissions,      \* the number of submitBooking calls so far, the time of updated_at
    appLoading,       \* App: loading
    userId,           \* App: userId
    memberCode,       \* App: memberCode
    lineDisplayName,  \* App: lineDisplayName
    isBlacklisted,    \* App: isBlacklisted
    isReturningUser,  \* App: isReturningUser
    name,             \* App: name
    phone,            \* App: phone
    serviceType,      \* App: serviceType
    removeGel,        \* App: removeGel, "null" before a choice
    agreedToTerms,    \* App: agreedToTerms
    submitting,       \* App: submitting
    submitted,        \* App: submitted
    showConfirmModal, \* App: showConfirmModal
    alerts,           \* App: the messages alert() has shown since the page load
    loads             \* the number of page loads so far

storeVars == <<availabilities, bookings>>
resolverVars == <<request, impl, fetchFail, outcome, respConfig>>
historyVars == <<dirty, repeat>>
calVars == <<clock, currentViewDate, availability, loading, error, inflight, stale,
             activeDateForSlots, selectedDate, selectedTime>>
submitVars == <<customers, webhook, submission, submissions>>
identityVars == <<appLoading, userId, memberCode, lineDisplayName, isBlacklisted,
                  isReturningUser, loads>>
formVars == <<name, phone, serviceType, removeGel, agreedToTerms>>
flowVars == <<submitting, submitted, showConfirmModal, alerts>>
sessionVars == <<identityVars, formVars, flowVars>>
calendarState == <<currentViewDate, availability, loading, error, inflight, stale,
                   activeDateForSlots>>
appVars == <<submitVars, sessionVars>>
vars == <<availabilities, bookings, request, impl, fetchFail, outcome, respConfig,
          dirty, repeat, clock, currentViewDate, availability, loading, error,
          inflight, stale, activeDateForSlots, selectedDate, selectedTime,
          customers, webhook, submission, submissions, appLoading, userId,
          memberCode, lineDisplayName, isBlacklisted, isReturningUser, name, phone,
          serviceType, removeGel, agreedToTerms, submitting, submitted,
          showConfirmModal, alerts, loads>>

----------------------------------------------------------------------------
(* Strings *)

\* two decimal digits, zero padded (date-fns tokens MM, dd)
Pad2(n) == <<48 + ((n \div 10) % 10), 48 + (n % 10)>>

\* four decimal digits, zero padded (date-fns token yyyy)
Pad4(n) == <<48 + ((n \div 1000) % 10), 48 + ((n \div 100) % 10),
             48 + ((n \div 10) % 10), 48 + (n % 10)>>

\* a < b in the order of UTF-16 code units, the order of the default sort
\* and of string comparison
RECURSIVE StrLess(_, _)
StrLess(a, b) ==
    IF b = <<>> THEN FALSE
    ELSE IF a = <<>> THEN TRUE
    ELSE IF Head(a) # Head(b) THEN Head(a) < Head(b)
    ELSE StrLess(Tail(a), Tail(b))

StrLeq(a, b) == a = b \/ StrLess(a, b)

\* Array.prototype.includes
includes(arr, x) == \E i \in 1..Len(arr) : arr[i] = x

\* Array.prototype.filter with the predicate of fetchAvailability:
\* a new array of the configured slots that are not occupied
filterFree(configuredSlots, occupiedSlots) ==
    SelectSeq(configuredSlots, LAMBDA slot : ~includes(occupiedSlots, slot))

\* a merge that returns the free slots in the order of the configuration
sortOmitted(arr) == arr

RECURSIVE insertSorted(_, _)
insertSorted(sorted, x) ==
    IF sorted = <<>> THEN <<x>>
    ELSE IF StrLess(x, Head(sorted)) THEN <<x>> \o sorted
    ELSE <<Head(sorted)>> \o insertSorted(Tail(sorted), x)

\* Array.prototype.sort() without comparator: ascending by code units, stable
RECURSIVE sort(_)
sort(arr) ==
    IF arr = <<>> THEN <<>>
    ELSE insertSorted(sort(SubSeq(arr, 1, Len(arr) - 1)), arr[Len(arr)])

----------------------------------------------------------------------------
(* Dates *)

\* a leap-year rule without the century exception
isLeapYearEveryFourth(y) == y % 4 = 0

isLeapYear(y) == (y % 4 = 0 /\ y % 100 # 0) \/ y % 400 = 0

\* endOfMonth(new Date(year, month, 1)).getDate(), month 0-based
getDaysInMonth(year, month) ==
    IF month = 1 THEN (IF isLeapYear(year) THEN 29 ELSE 28)
    ELSE IF month \in {3, 5, 8, 10} THEN 30
    ELSE 31

\* format(new Date(year, month, day), 'yyyy-MM-dd')
formatDate(year, month, day) ==
    Pad4(year) \o <<45>> \o Pad2(month + 1) \o <<45>> \o Pad2(day)

----------------------------------------------------------------------------
(* Bounds and the values the store is filled with *)

\* at most this many rows are ever inserted into table bookings
MaxBookings == 2

S0900 == <<48, 57, 58, 48, 48>>   \* "09:00"
S1100 == <<49, 49, 58, 48, 48>>   \* "11:00"
S1530 == <<49, 53, 58, 51, 48>>   \* "15:30"
S2000 == <<50, 48, 58, 48, 48>>   \* "20:00"
S930 == <<57, 58, 51, 48>>        \* "9:30", not zero padded

D20 == formatDate(2024, 4, 20)    \* "2024-05-20"
D21 == formatDate(2024, 4, 21)
D22 == formatDate(2024, 4, 22)

\* the slot lists the administrator stores for D20 while the program runs
SlotLists == {<<>>, <<S1100>>, <<S1100, S1530, S2000>>}

\* table availabilities when the program starts: D21 is open with a list that
\* is not sorted and has a slot that is not zero padded, D20 has no row
InitialAvailabilities == <<[date |-> D21, slots |-> <<S2000, S930, S1100>>]>>

\* the (date, time) pairs bookings are inserted for: a configured slot, a slot
\* outside every configuration, and a day that is never configured
BookingKeys == {<<D20, S1100>>, <<D20, S0900>>, <<D22, S1100>>}

\* the (year, month) pairs fetchAvailability is called with: 31, 30, 29 and 28
\* days, a century year that is no leap year, and December
Requests == {<<2024, 4>>, <<2024, 5>>, <<2024, 1>>, <<2023, 1>>, <<1900, 1>>, <<2023, 11>>}

----------------------------------------------------------------------------
(* The remote store *)

\* supabase.from('availabilities').select('date, slots').gte('date', startStr)
\* .lte('date', endStr): the rows of the range
selectAvailabilities(startStr, endStr) ==
    SelectSeq(availabilities,
              LAMBDA row : StrLeq(startStr, row.date) /\ StrLeq(row.date, endStr))

\* rpc get_occupied_slots(start_date, end_date): one row per booking of the
\* range whose status is not cancelled
get_occupied_slots(startStr, endStr) ==
    SelectSeq(bookings,
              LAMBDA b : /\ b.status # "cancelled"
                         /\ StrLeq(startStr, b.booking_date)
                         /\ StrLeq(b.booking_date, endStr))

\* the administrator stores the slot list of a day (one row per date)
AdminSetAvailability(date, slots) ==
    /\ availabilities' =
         IF \E i \in 1..Len(availabilities) : availabilities[i].date = date
         THEN [i \in 1..Len(availabilities) |->
                 IF availabilities[i].date = date
                 THEN [date |-> date, slots |-> slots]
                 ELSE availabilities[i]]
         ELSE Append(availabilities, [date |-> date, slots |-> slots])
    /\ dirty' = TRUE
    /\ UNCHANGED <<bookings, resolverVars, repeat, calVars, appVars>>

\* some client inserts a confirmed booking
InsertBooking(date, time) ==
    /\ Len(bookings) < MaxBookings
    /\ bookings' = Append(bookings,
         [booking_date |-> date, booking_time |-> time, status |-> "confirmed"])
    /\ dirty' = TRUE
    /\ UNCHANGED <<availabilities, resolverVars, repeat, calVars, appVars>>

----------------------------------------------------------------------------
(* The availability resolver *)

\* configuredDays.forEach(d => configMap[d.date] = d.slots): the slots of the
\* last row of each date
configMapOf(configuredDays) ==
    [date \in {configuredDays[i].date : i \in 1..Len(configuredDays)} |->
        LET last == CHOOSE i \in 1..Len(configuredDays) :
                      /\ configuredDays[i].date = date
                      /\ \A j \in (i + 1)..Len(configuredDays) :
                            configuredDays[j].date # date
        IN  configuredDays[last].slots]

\* the slots of the rows of one date, in the order of the rows
RECURSIVE timesOf(_, _)
timesOf(rows, date) ==
    IF rows = <<>> THEN <<>>
    ELSE (IF Head(rows).booking_date = date
          THEN <<Head(rows).booking_time>> ELSE <<>>) \o timesOf(Tail(rows), date)

\* bookings.forEach(b => bookingsMap[b.booking_date].push(b.booking_time))
bookingsMapOf(rows) ==
    [date \in {rows[i].booking_date : i \in 1..Len(rows)} |-> timesOf(rows, date)]

\* the record of a rest day
closedRecord(dateStr) ==
    [date |-> dateStr, isAvailable |-> FALSE, bookedCount |-> 0,
     availableSlots |-> <<>>, totalSlots |-> 0]

\* a loop body that treats a day as closed only when it has no row at all
dayRecordEmptyListOpen(dateStr, configMap, bookingsMap) ==
    IF dateStr \notin DOMAIN configMap
    THEN closedRecord(dateStr)
    ELSE LET configuredSlots == configMap[dateStr]
             occupiedSlots == IF dateStr \in DOMAIN bookingsMap
                              THEN bookingsMap[dateStr] ELSE <<>>
             availableSlots == filterFree(configuredSlots, occupiedSlots)
         IN  [date |-> dateStr,
              isAvailable |-> Len(availableSlots) > 0,
              bookedCount |-> Len(occupiedSlots),
              availableSlots |-> sort(availableSlots),
              totalSlots |-> Len(configuredSlots)]

\* one iteration of the loop over the days of the month
dayRecord(dateStr, configMap, bookingsMap) ==
    IF dateStr \notin DOMAIN configMap \/ Len(configMap[dateStr]) = 0
    THEN closedRecord(dateStr)
    ELSE LET configuredSlots == configMap[dateStr]
             occupiedSlots == IF dateStr \in DOMAIN bookingsMap
                              THEN bookingsMap[dateStr] ELSE <<>>
             availableSlots == filterFree(configuredSlots, occupiedSlots)
         IN  [date |-> dateStr,
              isAvailable |-> Len(availableSlots) > 0,
              bookedCount |-> Len(occupiedSlots),
              availableSlots |-> sort(availableSlots),
              totalSlots |-> Len(configuredSlots)]

\* the merge of the two responses: one record per i in 1..daysInMonth
mergeMonth(year, month, configuredDays, bookingRows) ==
    LET configMap == configMapOf(configuredDays)
        bookingsMap == bookingsMapOf(bookingRows)
    IN  [i \in 1..getDaysInMonth(year, month) |->
            dayRecord(formatDate(year, month, i), configMap, bookingsMap)]

\* a merge that sorts the configured lists themselves
configuredDaysSortedInPlace(configuredDays) ==
    [i \in 1..Len(configuredDays) |->
        [date |-> configuredDays[i].date, slots |-> sort(configuredDays[i].slots)]]

\* the rows of the configured-slots response once the merge has run: filter
\* builds a new array and sort runs on that copy, so the rows are as received
configuredDaysAfterMerge(configuredDays) == configuredDays

\* history: "same" when this call follows a successful call of the same month
\* with no store write in between and succeeds with the same outcome of the
\* occupied-slots fetch, "degraded" when only that outcome differs
repeatOf(year, month, cfgError, occError) ==
    IF dirty \/ outcome.status # "ok" \/ request # <<year, month>> \/ cfgError
    THEN "no"
    ELSE IF fetchFail.occ = occError THEN "same" ELSE "degraded"

\* a resolver that fails closed when the occupied-slots fetch fails
fetchAvailabilityFailClosed(year, month, cfgError, occError) ==
    LET startStr == formatDate(year, month, 1)
        endStr == formatDate(year, month, getDaysInMonth(year, month))
        configuredDays == selectAvailabilities(startStr, endStr)
        bookingRows == get_occupied_slots(startStr, endStr)
    IN  IF cfgError \/ occError
        THEN [status |-> "error", records |-> <<>>, configuredDays |-> <<>>]
        ELSE [status |-> "ok",
              records |-> mergeMonth(year, month, configuredDays, bookingRows),
              configuredDays |-> configuredDaysAfterMerge(configuredDays)]

\* fetchAvailability(year, month) of services/mockApi.ts: what it returns
\* (status "ok", the records) or that it throws (status "error"); cfgError and
\* occError say which of its two fetches returns an error; configuredDays is
\* the response of the first fetch as the call leaves it
fetchAvailability(year, month, cfgError, occError) ==
    LET startStr == formatDate(year, month, 1)
        endStr == formatDate(year, month, getDaysInMonth(year, month))
        configuredDays == selectAvailabilities(startStr, endStr)
        bookingRows == IF occError THEN <<>> ELSE get_occupied_slots(startStr, endStr)
    IN  IF cfgError
        THEN [status |-> "error", records |-> <<>>, configuredDays |-> <<>>]
        ELSE [status |-> "ok",
              records |-> mergeMonth(year, month, configuredDays, bookingRows),
              configuredDays |-> configuredDaysAfterMerge(configuredDays)]

\* fetchAvailability(year, month) of the earlier whitelist generation: both
\* errors are only logged and the merge runs on what was received
fetchAvailabilityV1(year, month, cfgError, occError) ==
    LET startStr == formatDate(year, month, 1)
        endStr == formatDate(year, month, getDaysInMonth(year, month))
        configuredDays == IF cfgError THEN <<>> ELSE selectAvailabilities(startStr, endStr)
        bookingRows == IF occError THEN <<>> ELSE get_occupied_slots(startStr, endStr)
    IN  [status |-> "ok",
         records |-> mergeMonth(year, month, configuredDays, bookingRows),
         configuredDays |-> configuredDaysAfterMerge(configuredDays)]

\* a caller awaits fetchAvailability(year, month)
Resolve(year, month, cfgError, occError) ==
    LET r == fetchAvailability(year, month, cfgError, occError)
    IN  /\ request' = <<year, month>>
        /\ impl' = "mockApi"
        /\ fetchFail' = [cfg |-> cfgError, occ |-> occError]
        /\ outcome' = [status |-> r.status, records |-> r.records]
        /\ respConfig' = r.configuredDays
        /\ dirty' = FALSE
        /\ repeat' = repeatOf(year, month, cfgError, occError)
        /\ UNCHANGED <<availabilities, bookings, calVars, appVars>>

\* a caller awaits the earlier generation's fetchAvailability(year, month)
ResolveV1(year, month, cfgError, occError) ==
    LET r == fetchAvailabilityV1(year, month, cfgError, occError)
    IN  /\ request' = <<year, month>>
        /\ impl' = "part_000"
        /\ fetchFail' = [cfg |-> cfgError, occ |-> occError]
        /\ outcome' = [status |-> r.status, records |-> r.records]
        /\ respConfig' = r.configuredDays
        /\ dirty' = FALSE
        /\ repeat' = repeatOf(year, month, cfgError, occError)
        /\ UNCHANGED <<availabilities, bookings, calVars, appVars>>

----------------------------------------------------------------------------
(* The calendar: BookingCalendar and the form state it selects into *)

\* addHours(today, 48): the lead time in hours
LeadHours == 48

\* dayOfMonth >= 15: the day of the month from which the next month opens
NextMonthDay == 15

\* at most this many loadData calls await their fetch at the same time
MaxInflight == 2

NoDate == [year |-> 0, month |-> 0, date |-> 0]
NoSlot == <<>>

\* the instants at which the calendar renders, ascending; a render reads
\* new Date() and never sees an earlier instant than the render before it
Clock ==
    << [year |-> 2024, month |-> 4, date |-> 10, hours |-> 10, minutes |-> 0],
       [year |-> 2024, month |-> 4, date |-> 18, hours |-> 10, minutes |-> 0],
       [year |-> 2024, month |-> 4, date |-> 18, hours |-> 11, minutes |-> 0],
       [year |-> 2024, month |-> 4, date |-> 21, hours |-> 12, minutes |-> 0],
       [year |-> 2024, month |-> 5, date |-> 1, hours |-> 9, minutes |-> 0] >>

\* the renders a session can start with
InitialClock == {1, 2}

\* the store the calendar reads: table availabilities
CalendarAvailabilities ==
    << [date |-> formatDate(2024, 4, 13), slots |-> <<S1100>>],
       [date |-> formatDate(2024, 4, 19), slots |-> <<S0900>>],
       [date |-> D20, slots |-> <<S0900, S1100, S1530, S2000>>],
       [date |-> D22, slots |-> <<S1100>>],
       [date |-> formatDate(2024, 5, 3), slots |-> <<S1100>>] >>

\* the store the calendar reads: table bookings
CalendarBookings ==
    << [booking_date |-> D20, booking_time |-> S1530, status |-> "confirmed"],
       [booking_date |-> D22, booking_time |-> S1100, status |-> "confirmed"] >>

\* days of May 2024 in the store the calendar reads
Day13 == [year |-> 2024, month |-> 4, date |-> 13]
Day19 == [year |-> 2024, month |-> 4, date |-> 19]
Day20 == [year |-> 2024, month |-> 4, date |-> 20]

\* the number of days from 1970-01-01 to the local day (year, month, date),
\* month 0-based: the day part of a Date's time value
daysFromCivil(year, month, date) ==
    LET m == month + 1
        y == IF m <= 2 THEN year - 1 ELSE year
        era == y \div 400
        yoe == y - era * 400
        mp == (m + 9) % 12
        doy == (153 * mp + 2) \div 5 + date - 1
        doe == yoe * 365 + yoe \div 4 - yoe \div 100 + doy
    IN  era * 146097 + doe - 719468

\* the time value of a local Date in minutes
toMinutes(year, month, date, hours, minutes) ==
    daysFromCivil(year, month, date) * 1440 + hours * 60 + minutes

\* const today = new Date(), read at every render
today == Clock[clock]

todayMinutes == toMinutes(today.year, today.month, today.date, today.hours, today.minutes)

\* startOfDay(today)
startOfToday == toMinutes(today.year, today.month, today.date, 0, 0)

\* const showNextMonthAllowed = getDate(today) >= 15
showNextMonthAllowed == today.date >= NextMonthDay

\* a cutoff counted from the start of today
bookingCutoffFromMidnight == startOfToday + LeadHours * 60

\* const bookingCutoff = addHours(today, 48)
bookingCutoff == todayMinutes + LeadHours * 60

\* addMonths on a [year, month] pair
addMonths(ym, n) ==
    LET k == ym.year * 12 + ym.month + n
    IN  [year |-> k \div 12, month |-> k % 12]

\* startOfMonth(d) and endOfMonth(d) as time values (the last minute of the month)
startOfMonth(ym) == toMinutes(ym.year, ym.month, 1, 0, 0)
endOfMonth(ym) == toMinutes(ym.year, ym.month, getDaysInMonth(ym.year, ym.month), 23, 59)

isSameMonth(a, b) == a.year = b.year /\ a.month = b.month

\* const maxDate = showNextMonthAllowed ? endOfMonth(addMonths(today, 1)) : endOfMonth(today)
maxDate ==
    IF showNextMonthAllowed
    THEN addMonths([year |-> today.year, month |-> today.month], 1)
    ELSE [year |-> today.year, month |-> today.month]

\* Number(s) of a string of decimal digits
RECURSIVE toNumber(_)
toNumber(str) ==
    IF str = <<>> THEN 0
    ELSE toNumber(SubSeq(str, 1, Len(str) - 1)) * 10 + (str[Len(str)] - 48)

\* timeStr.split(':'): the parts before and after the first colon, the second
\* cut at a further colon; <<>> when there is no colon
splitTime(timeStr) ==
    LET colons == {i \in 1..Len(timeStr) : timeStr[i] = 58}
    IN  IF colons = {} THEN <<>>
        ELSE LET c == CHOOSE i \in colons : \A j \in colons : i <= j
                 rest == SubSeq(timeStr, c + 1, Len(timeStr))
                 more == {i \in 1..Len(rest) : rest[i] = 58}
                 c2 == IF more = {} THEN Len(rest) + 1
                       ELSE CHOOSE i \in more : \A j \in more : i <= j
             IN  <<SubSeq(timeStr, 1, c - 1), SubSeq(rest, 1, c2 - 1)>>

\* a cutoff test that admits the slot at the cutoff instant itself
checkSlotTimeInclusive(date, timeStr) ==
    LET parts == splitTime(timeStr)
    IN  /\ parts # <<>>
        /\ toMinutes(date.year, date.month, date.date,
                     toNumber(parts[1]), toNumber(parts[2])) >= bookingCutoff

\* checkSlotTime(date, timeStr): isAfter(setMinutes(setHours(date, hours), minutes),
\* bookingCutoff); without a colon the minutes are undefined and the Date invalid
checkSlotTime(date, timeStr) ==
    LET parts == splitTime(timeStr)
    IN  /\ parts # <<>>
        /\ toMinutes(date.year, date.month, date.date,
                     toNumber(parts[1]), toNumber(parts[2])) > bookingCutoff

\* format(day, 'yyyy-MM-dd')
dateKey(day) == formatDate(day.year, day.month, day.date)

\* eachDayOfInterval({start: startOfMonth(currentViewDate), end: endOfMonth(currentViewDate)})
daysInMonth ==
    {[year |-> currentViewDate.year, month |-> currentViewDate.month, date |-> i] :
        i \in 1..getDaysInMonth(currentViewDate.year, currentViewDate.month)}

\* renderDay: isPast
isPast(day) == toMinutes(day.year, day.month, day.date, 0, 0) < startOfToday

\* a day that counts as bookable as soon as one of its slots is free
hasBookableSlotAnyFree(day) ==
    /\ dateKey(day) \in DOMAIN availability
    /\ availability[dateKey(day)].availableSlots # <<>>

\* renderDay: hasBookableSlot
hasBookableSlot(day) ==
    /\ dateKey(day) \in DOMAIN availability
    /\ \E i \in 1..Len(availability[dateKey(day)].availableSlots) :
          checkSlotTime(day, availability[dateKey(day)].availableSlots[i])

\* renderDay: isConfigured = dayData?.totalSlots > 0
isConfigured(day) ==
    /\ dateKey(day) \in DOMAIN availability
    /\ availability[dateKey(day)].totalSlots > 0

isRestDay(day) == ~isPast(day) /\ ~isConfigured(day)
isFull(day) == ~isPast(day) /\ isConfigured(day) /\ ~hasBookableSlot(day)

\* a day button that is disabled only for rest days and full days
isDisabledPastOpen(day) == isRestDay(day) \/ isFull(day)

\* renderDay: isDisabled
isDisabled(day) == isPast(day) \/ isRestDay(day) \/ isFull(day)

\* the day grid and the slot panel are rendered
gridShown == ~error /\ ~loading

\* the effect of [currentViewDate]: loadData up to its await
loadDataStart(ym) ==
    /\ loading' = TRUE
    /\ error' = FALSE
    /\ inflight' = Append(inflight, ym)
    /\ stale' = [stale EXCEPT !.pending = Append(@, FALSE)]

\* the previous-month button and handlePrevMonth
handlePrevMonth ==
    LET prev == addMonths(currentViewDate, -1)
    IN  /\ ~error
        /\ Len(inflight) < MaxInflight
        /\ ~isSameMonth(currentViewDate, today)
        /\ ~(endOfMonth(prev) < startOfToday)
        /\ currentViewDate' = prev
        /\ loadDataStart(prev)
        /\ UNCHANGED <<appVars, storeVars, resolverVars, historyVars, clock, availability,
                       activeDateForSlots, selectedDate, selectedTime>>

\* the next-month button and handleNextMonth
handleNextMonth ==
    LET next == addMonths(currentViewDate, 1)
    IN  /\ ~error
        /\ Len(inflight) < MaxInflight
        /\ ~(~showNextMonthAllowed \/ isSameMonth(currentViewDate, maxDate))
        /\ \/ startOfMonth(next) < endOfMonth(maxDate)
           \/ isSameMonth(next, maxDate)
        /\ currentViewDate' = next
        /\ loadDataStart(next)
        /\ UNCHANGED <<appVars, storeVars, resolverVars, historyVars, clock, availability,
                       activeDateForSlots, selectedDate, selectedTime>>

\* setAvailability(prev => ({...prev, ...map})) with map keyed by record date
mergeAvailability(prev, records) ==
    LET map == [k \in {records[i].date : i \in 1..Len(records)} |->
                   records[CHOOSE i \in 1..Len(records) : records[i].date = k]]
    IN  [k \in DOMAIN prev \cup DOMAIN map |->
            IF k \in DOMAIN map THEN map[k] ELSE prev[k]]

\* history of the issue order: when the i-th pending call settles, settled
\* tells whether a call for the same month issued after it had merged its
\* records before, and a call that merges marks the earlier pending calls for
\* its month
supersede(i, merged) ==
    LET marked == [j \in 1..Len(inflight) |->
                      \/ stale.pending[j]
                      \/ merged /\ j < i /\ inflight[j] = inflight[i]]
    IN  [pending |-> SubSeq(marked, 1, i - 1) \o SubSeq(marked, i + 1, Len(marked)),
         settled |-> stale.pending[i]]

\* the rest of loadData once fetchAvailability of the i-th pending call settles
loadDataSettle(i, cfgError, occError) ==
    /\ i \in 1..Len(inflight)
    /\ LET ym == inflight[i]
           r == fetchAvailability(ym.year, ym.month, cfgError, occError)
       IN  IF r.status = "ok"
           THEN /\ availability' = mergeAvailability(availability, r.records)
                /\ error' = error
           ELSE /\ availability' = availability
                /\ error' = TRUE
    /\ loading' = FALSE
    /\ inflight' = SubSeq(inflight, 1, i - 1) \o SubSeq(inflight, i + 1, Len(inflight))
    /\ stale' = supersede(i, fetchAvailability(inflight[i].year, inflight[i].month,
                                               cfgError, occError).status = "ok")
    /\ UNCHANGED <<appVars, storeVars, resolverVars, historyVars, clock, currentViewDate,
                   activeDateForSlots, selectedDate, selectedTime>>

\* a day click that selects the day and keeps the time selected before
handleDateClickKeepsTime(day) ==
    /\ gridShown
    /\ day \in daysInMonth
    /\ ~isDisabled(day)
    /\ activeDateForSlots' = day
    /\ selectedDate' = day
    /\ selectedTime' = selectedTime
    /\ UNCHANGED <<appVars, storeVars, resolverVars, historyVars, stale, clock, currentViewDate,
                   availability, loading, error, inflight>>

\* a day button of the grid and handleDateClick, with handleDateSelect(day, null)
handleDateClick(day) ==
    /\ gridShown
    /\ day \in daysInMonth
    /\ ~isDisabled(day)
    /\ IF /\ activeDateForSlots # NoDate
          /\ isSameMonth(day, activeDateForSlots)
          /\ day.date = activeDateForSlots.date
       THEN UNCHANGED <<activeDateForSlots, selectedDate, selectedTime>>
       ELSE /\ activeDateForSlots' = day
            /\ selectedDate' = day
            /\ selectedTime' = NoSlot
    /\ UNCHANGED <<appVars, storeVars, resolverVars, historyVars, stale, clock, currentViewDate,
                   availability, loading, error, inflight>>

\* a slot button of the panel and handleSlotClick, with handleDateSelect(day, slot)
handleSlotClick(slot) ==
    /\ gridShown
    /\ activeDateForSlots # NoDate
    /\ dateKey(activeDateForSlots) \in DOMAIN availability
    /\ slot \in {availability[dateKey(activeDateForSlots)].availableSlots[i] :
                    i \in 1..Len(availability[dateKey(activeDateForSlots)].availableSlots)}
    /\ checkSlotTime(activeDateForSlots, slot)
    /\ IF slot = NoSlot
       THEN selectedDate' = activeDateForSlots /\ selectedTime' = NoSlot
       ELSE selectedTime' = slot /\ selectedDate' = selectedDate
    /\ activeDateForSlots' = NoDate
    /\ UNCHANGED <<appVars, storeVars, resolverVars, historyVars, stale, clock, currentViewDate,
                   availability, loading, error, inflight>>

\* the calendar renders again at a later instant
Rerender ==
    /\ \E c \in (clock + 1)..Len(Clock) : clock' = c
    /\ UNCHANGED <<appVars, storeVars, resolverVars, historyVars, stale, currentViewDate, availability,
                   loading, error, inflight, activeDateForSlots, selectedDate,
                   selectedTime>>

----------------------------------------------------------------------------
(* Submission: services/mockApi.ts submitBooking and the customers table *)

\* at most this many submitBooking calls in a behaviour
MaxSubmissions == 2

\* a customer without a member code (the column is null)
NoCode == ""

NoData == [userId |-> "", memberCode |-> NoCode, date |-> <<>>, time |-> NoSlot,
           name |-> "", phone |-> <<>>, serviceType |-> "", removeGel |-> "null",
           lineDisplayName |-> ""]

Names == {"Amy", "Bea"}

\* "0911111111"
Phone1 == <<48, 57, 49, 49, 49, 49, 49, 49, 49, 49>>

StoredCode == "CN-AAAA"
\* a code generateNewMemberCode returns
GeneratedCodes == {"CN-2345"}

UserIds == {"U1", "U2"}

\* the row of another customer, which no submission of U1 touches
OtherCustomer ==
    [user_id |-> "U2", name |-> "Zoe", phone |-> Phone1, member_code |-> "CN-ZZZZ",
     is_blacklisted |-> TRUE, updated_at |-> 0]

\* the draft of another client, for the date and the time the form offers
OtherDraft ==
    [userId |-> "U3", memberCode |-> NoCode, date |-> D20, time |-> S1100,
     name |-> "Cat", phone |-> Phone1, serviceType |-> "classic_special",
     removeGel |-> "true", lineDisplayName |-> "Cat"]

\* the customers table when the behaviour starts: U1 absent, known with a
\* member code, known and blacklisted, known without a member code
InitialCustomers ==
    { <<OtherCustomer>>,
      <<OtherCustomer,
        [user_id |-> "U1", name |-> "Amy", phone |-> Phone1, member_code |-> StoredCode,
         is_blacklisted |-> FALSE, updated_at |-> 0]>>,
      <<[user_id |-> "U1", name |-> "Amy", phone |-> Phone1, member_code |-> StoredCode,
         is_blacklisted |-> TRUE, updated_at |-> 0],
        OtherCustomer>>,
      <<OtherCustomer,
        [user_id |-> "U1", name |-> "Bea", phone |-> Phone1, member_code |-> NoCode,
         is_blacklisted |-> FALSE, updated_at |-> 0]>> }

\* the drafts a caller passes to submitBooking
Drafts ==
    {[userId |-> "U1", memberCode |-> c, date |-> D20, time |-> S1100,
      name |-> n, phone |-> Phone1, serviceType |-> "classic_special",
      removeGel |-> "false", lineDisplayName |-> ""] :
        c \in {NoCode, StoredCode, "CN-2345"}, n \in Names}

\* what becomes of the notification: no webhook URL is configured, building
\* the payload throws, the POST is delivered, the POST is rejected
NotifyOutcomes == {"noWebhook", "payloadThrows", "delivered", "rejected"}

\* the rows stored for a user_id
customerRows(rows, uid) == {i \in 1..Len(rows) : rows[i].user_id = uid}

\* the member code stored for a user_id, NoCode without a row
codeOf(rows, uid) ==
    IF customerRows(rows, uid) = {} THEN NoCode
    ELSE rows[CHOOSE i \in customerRows(rows, uid) : TRUE].member_code

\* a payload that always carries member_code
customerPayloadAlwaysCode(data, now) ==
    [user_id |-> data.userId, name |-> data.name, phone |-> data.phone,
     updated_at |-> now, member_code |-> data.memberCode]

\* customerPayload: member_code only if (data.memberCode)
customerPayload(data, now) ==
    IF data.memberCode # NoCode
    THEN [user_id |-> data.userId, name |-> data.name, phone |-> data.phone,
          updated_at |-> now, member_code |-> data.memberCode]
    ELSE [user_id |-> data.userId, name |-> data.name, phone |-> data.phone,
          updated_at |-> now]

\* an upsert that leaves an existing row alone (ON CONFLICT DO NOTHING)
upsertInsertOnly(rows, payload) ==
    IF \E i \in 1..Len(rows) : rows[i].user_id = payload.user_id
    THEN rows
    ELSE Append(rows, [user_id |-> payload.user_id, name |-> payload.name,
                       phone |-> payload.phone, updated_at |-> payload.updated_at,
                       member_code |-> IF "member_code" \in DOMAIN payload
                                       THEN payload.member_code ELSE NoCode,
                       is_blacklisted |-> FALSE])

\* an upsert that replaces the whole row, the columns not in the payload
\* falling back to their defaults
upsertReplaceRow(rows, payload) ==
    LET fresh == [user_id |-> payload.user_id, name |-> payload.name,
                  phone |-> payload.phone, updated_at |-> payload.updated_at,
                  member_code |-> IF "member_code" \in DOMAIN payload
                                  THEN payload.member_code ELSE NoCode,
                  is_blacklisted |-> FALSE]
    IN  IF \E i \in 1..Len(rows) : rows[i].user_id = payload.user_id
        THEN [i \in 1..Len(rows) |->
                 IF rows[i].user_id = payload.user_id THEN fresh ELSE rows[i]]
        ELSE Append(rows, fresh)

\* a write that inserts a row whether or not the user_id has one
upsertAlwaysInsert(rows, payload) ==
    Append(rows, [user_id |-> payload.user_id, name |-> payload.name,
                  phone |-> payload.phone, updated_at |-> payload.updated_at,
                  member_code |-> IF "member_code" \in DOMAIN payload
                                  THEN payload.member_code ELSE NoCode,
                  is_blacklisted |-> FALSE])

\* from('customers').upsert(customerPayload, {onConflict: 'user_id'}): the row
\* of the user_id gets the columns of the payload and keeps its other
\* columns; without such a row one is inserted, the columns not in the
\* payload at their defaults
upsert(rows, payload) ==
    IF \E i \in 1..Len(rows) : rows[i].user_id = payload.user_id
    THEN [i \in 1..Len(rows) |->
             IF rows[i].user_id = payload.user_id
             THEN [rows[i] EXCEPT !.name = payload.name,
                                  !.phone = payload.phone,
                                  !.updated_at = payload.updated_at,
                                  !.member_code = IF "member_code" \in DOMAIN payload
                                                  THEN payload.member_code ELSE @]
             ELSE rows[i]]
    ELSE Append(rows, [user_id |-> payload.user_id, name |-> payload.name,
                       phone |-> payload.phone, updated_at |-> payload.updated_at,
                       member_code |-> IF "member_code" \in DOMAIN payload
                                       THEN payload.member_code ELSE NoCode,
                       is_blacklisted |-> FALSE])

\* a booking row that takes its name from the LINE display name and waits
\* for a confirmation
bookingPayloadDisplayName(data) ==
    [user_id |-> data.userId,
     customer_name_snapshot |-> data.lineDisplayName,
     customer_phone_snapshot |-> data.phone,
     service_type |-> data.serviceType,
     booking_date |-> data.date,
     booking_time |-> data.time,
     remove_gel |-> data.removeGel,
     status |-> "pending",
     modification_count |-> 0]

\* bookingPayload
bookingPayload(data) ==
    [user_id |-> data.userId,
     customer_name_snapshot |-> data.name,
     customer_phone_snapshot |-> data.phone,
     service_type |-> data.serviceType,
     booking_date |-> data.date,
     booking_time |-> data.time,
     remove_gel |-> data.removeGel,
     status |-> "confirmed",
     modification_count |-> 0]

\* n8nPayload
n8nPayload(data) ==
    [user_id |-> data.userId,
     customer_name_snapshot |-> data.name,
     booking_date |-> data.date,
     booking_time |-> data.time,
     member_code |-> data.memberCode,
     line_display_name |-> IF data.lineDisplayName # "" THEN data.lineDisplayName
                           ELSE data.name]

\* an insert that the store rejects silently when a confirmed booking has
\* the date and the time of the row
insertUnlessTaken(rows, row) ==
    IF \E i \in 1..Len(rows) : /\ rows[i].booking_date = row.booking_date
                               /\ rows[i].booking_time = row.booking_time
                               /\ rows[i].status = "confirmed"
    THEN rows
    ELSE Append(rows, row)

\* from('bookings').insert([bookingPayload]): the table has no uniqueness
\* constraint the code relies on; the row is added whatever rows exist
insert(rows, row) == Append(rows, row)

\* a booking write whose error is not looked at
bookingErrorSwallowed(bookingError) == FALSE

\* a customer write whose error is not looked at
customerErrorSwallowed(customerError) == FALSE

\* if (customerError) throw new Error(...)
customerWriteFailed(customerError) == customerError

\* if (bookingError) throw bookingError
bookingWriteFailed(bookingError) == bookingError

\* a notification step without the try/catch around the payload
dispatchUncaught(notify) ==
    [posted |-> notify \in {"delivered", "rejected"},
     thrown |-> notify = "payloadThrows"]

\* Step C: if (N8N_WEBHOOK_URL) try { fetch(...).catch(log) } catch { log }:
\* whether the POST is issued and whether an exception leaves the step
dispatch(notify) ==
    [posted |-> notify \in {"delivered", "rejected"},
     thrown |-> FALSE]

\* submitBooking(data) up to its first await: the customer upsert is issued
startSubmit(data, caller) ==
    /\ submission.pc = "idle"
    /\ submissions < MaxSubmissions
    /\ submissions' = submissions + 1
    /\ submission' = [pc |-> "upsert", caller |-> caller, data |-> data,
                      payload |-> customerPayload(data, submissions + 1),
                      calls |-> <<"upsert">>,
                      customerError |-> FALSE, bookingError |-> FALSE,
                      notify |-> "none", result |-> "none"]

\* the message of the alert in the catch of handleFinalSubmit
FailurePrompt == "booking failed, please try again later"

\* a catch that leaves submitting set and reports what submitBooking threw
afterFailureKeepsSubmitting ==
    /\ submitting' = submitting
    /\ alerts' = IF submission.caller = "app"
                 THEN Append(alerts, submission'.result) ELSE alerts
    /\ UNCHANGED <<submitted, calendarState>>

\* handleFinalSubmit after submitBooking threw: alert, setSubmitting(false);
\* a caller other than the form has no state
afterFailure ==
    /\ submitting' = IF submission.caller = "app" THEN FALSE ELSE submitting
    /\ alerts' = IF submission.caller = "app"
                 THEN Append(alerts, FailurePrompt) ELSE alerts
    /\ UNCHANGED <<submitted, calendarState>>

\* the form is no longer rendered: BookingCalendar unmounts and its state,
\* with the fetches it awaits, is gone
unmountCalendar ==
    /\ availability' = << >>
    /\ loading' = FALSE
    /\ error' = FALSE
    /\ inflight' = <<>>
    /\ stale' = [pending |-> <<>>, settled |-> FALSE]
    /\ activeDateForSlots' = NoDate
    /\ UNCHANGED currentViewDate

\* handleFinalSubmit after submitBooking returned: setSubmitted(true),
\* setSubmitting(false); the success page replaces the form
afterSuccess ==
    IF submission.caller = "app"
    THEN /\ submitted' = TRUE
         /\ submitting' = FALSE
         /\ alerts' = alerts
         /\ unmountCalendar
    ELSE UNCHANGED <<submitted, submitting, alerts, calendarState>>

\* submitBooking called by a client of the service
submitBooking(data) ==
    /\ startSubmit(data, "api")
    /\ UNCHANGED <<storeVars, resolverVars, historyVars, calVars, customers, webhook,
                   sessionVars>>

\* the customer upsert settles: on an error submitBooking throws, otherwise
\* the row is written and the booking insert is issued
customerUpsertSettle(customerError) ==
    /\ submission.pc = "upsert"
    /\ customers' = IF customerError THEN customers
                    ELSE upsert(customers, submission.payload)
    /\ IF customerWriteFailed(customerError)
       THEN /\ submission' = [submission EXCEPT !.pc = "idle",
                                                 !.customerError = customerError,
                                                 !.result = "CustomerWriteError"]
            /\ afterFailure
       ELSE /\ submission' = [submission EXCEPT !.pc = "insert",
                                                 !.customerError = customerError,
                                                 !.calls = Append(@, "insert")]
            /\ UNCHANGED <<submitting, submitted, alerts, calendarState>>
    /\ UNCHANGED <<storeVars, resolverVars, historyVars, clock, selectedDate,
                   selectedTime, webhook, submissions, identityVars, formVars,
                   showConfirmModal>>

\* the booking insert settles: on an error submitBooking throws, otherwise
\* the row exists, the notification step runs and submitBooking returns
bookingInsertSettle(bookingError, notify) ==
    /\ submission.pc = "insert"
    /\ bookings' = IF bookingError THEN bookings
                   ELSE insert(bookings, bookingPayload(submission.data))
    /\ IF bookingWriteFailed(bookingError)
       THEN /\ submission' = [submission EXCEPT !.pc = "idle",
                                                 !.bookingError = bookingError,
                                                 !.result = "BookingWriteError"]
            /\ webhook' = webhook
            /\ afterFailure
       ELSE /\ webhook' = IF dispatch(notify).posted
                          THEN Append(webhook, n8nPayload(submission.data))
                          ELSE webhook
            /\ IF dispatch(notify).thrown
               THEN /\ submission' = [submission EXCEPT !.pc = "idle",
                                                         !.bookingError = bookingError,
                                                         !.notify = notify,
                                                         !.result = "NotificationError"]
                    /\ afterFailure
               ELSE /\ submission' =
                          [submission EXCEPT !.pc = "idle",
                                             !.bookingError = bookingError,
                                             !.notify = notify,
                                             !.calls = IF dispatch(notify).posted
                                                       THEN Append(@, "notify") ELSE @,
                                             !.result = "success"]
                    /\ afterSuccess
    /\ UNCHANGED <<availabilities, resolverVars, historyVars, clock, selectedDate,
                   selectedTime, customers, submissions, identityVars, formVars,
                   showConfirmModal>>

----------------------------------------------------------------------------
(* Session: App.tsx *)

\* at most this many page loads in a behaviour
MaxLoads == 2

\* the sessions: the customers table at the first page load and the LINE
\* display name of the user, "" outside LINE
Sessions ==
    {<<c, "">> : c \in InitialCustomers} \cup
    {<<c, "Lin">> : c \in {d \in InitialCustomers : customerRows(d, "U1") = {}}}

\* what is typed into the name field
TypedNames == {"Bea"}

\* what is typed into the phone field: "0911-111-111" and the eleven digits
\* "09111111112"
RawPhones ==
    { <<48, 57, 49, 49, 45, 49, 49, 49, 45, 49, 49, 49>>,
      <<48, 57, 49, 49, 49, 49, 49, 49, 49, 49, 50>> }

\* the answers of the customer lookup: the query returns the row or no row,
\* or it returns an error
Lookups == {"answered", "failed"}

\* getCustomerProfile(userId): the row, or null without a row and on an error
NoProfile == [user_id |-> ""]

getCustomerProfile(uid, lookup) ==
    IF uid = "" \/ lookup = "failed" \/ customerRows(customers, uid) = {}
    THEN NoProfile
    ELSE customers[CHOOSE i \in customerRows(customers, uid) : TRUE]

\* e.target.value.replace(/\D/g, '')
digitsOf(raw) == SelectSeq(raw, LAMBDA c : c >= 48 /\ c <= 57)

\* the form, with the calendar, is what App renders
formShown == ~appLoading /\ ~isBlacklisted /\ ~submitted

\* a page load up to the await of getCustomerProfile
pageLoad ==
    /\ appLoading' = TRUE
    /\ memberCode' = NoCode
    /\ isBlacklisted' = FALSE
    /\ isReturningUser' = FALSE
    /\ name' = ""
    /\ phone' = <<>>
    /\ serviceType' = ""
    /\ removeGel' = "null"
    /\ agreedToTerms' = FALSE
    /\ submitting' = FALSE
    /\ submitted' = FALSE
    /\ showConfirmModal' = FALSE
    /\ alerts' = <<>>
    /\ selectedDate' = NoDate
    /\ selectedTime' = NoSlot

\* init once getCustomerProfile settles; when the form is rendered the
\* calendar mounts and its loadData awaits the fetch
initSettle(lookup, code) ==
    LET profile == getCustomerProfile(userId, lookup)
        blacklisted == profile # NoProfile /\ profile.is_blacklisted
    IN  /\ appLoading
        /\ IF profile # NoProfile
           THEN /\ isReturningUser' = TRUE
                /\ memberCode' = IF profile.member_code # NoCode
                                 THEN profile.member_code ELSE code
                /\ isBlacklisted' = blacklisted
                /\ name' = IF profile.name # "" THEN profile.name ELSE name
                /\ phone' = IF profile.phone # <<>> THEN profile.phone ELSE phone
           ELSE /\ isReturningUser' = FALSE
                /\ memberCode' = code
                /\ isBlacklisted' = isBlacklisted
                /\ name' = lineDisplayName
                /\ phone' = <<>>
        /\ appLoading' = FALSE
        /\ IF blacklisted
           THEN UNCHANGED calendarState
           ELSE /\ currentViewDate' = [year |-> today.year, month |-> today.month]
                /\ availability' = << >>
                /\ activeDateForSlots' = NoDate
                /\ loading' = TRUE
                /\ error' = FALSE
                /\ inflight' = <<currentViewDate'>>
                /\ stale' = [pending |-> <<FALSE>>, settled |-> FALSE]
        /\ UNCHANGED <<storeVars, resolverVars, historyVars, clock, selectedDate,
                       selectedTime, submitVars, userId, lineDisplayName, loads,
                       serviceType, removeGel, agreedToTerms, flowVars>>

\* onChange of the name field
setName(value) ==
    /\ formShown
    /\ name' = value
    /\ UNCHANGED <<storeVars, resolverVars, historyVars, calVars, submitVars,
                   identityVars, phone, serviceType, removeGel, agreedToTerms,
                   flowVars>>

\* handlePhoneChange
handlePhoneChange(raw) ==
    /\ formShown
    /\ phone' = IF Len(digitsOf(raw)) <= 10 THEN digitsOf(raw) ELSE phone
    /\ UNCHANGED <<storeVars, resolverVars, historyVars, calVars, submitVars,
                   identityVars, name, serviceType, removeGel, agreedToTerms,
                   flowVars>>

\* onChange of the service select
setServiceType(value) ==
    /\ formShown
    /\ serviceType' = value
    /\ UNCHANGED <<storeVars, resolverVars, historyVars, calVars, submitVars,
                   identityVars, name, phone, removeGel, agreedToTerms, flowVars>>

\* onChange of the removeGel radio buttons
setRemoveGel(value) ==
    /\ formShown
    /\ removeGel' = value
    /\ UNCHANGED <<storeVars, resolverVars, historyVars, calVars, submitVars,
                   identityVars, name, phone, serviceType, agreedToTerms, flowVars>>

\* onChange of the terms checkbox
setAgreedToTerms(checked) ==
    /\ formShown
    /\ agreedToTerms' = checked
    /\ UNCHANGED <<storeVars, resolverVars, historyVars, calVars, submitVars,
                   identityVars, name, phone, serviceType, removeGel, flowVars>>

\* a booking button that is disabled only by !agreedToTerms
handlePreSubmitWhileSubmitting ==
    /\ formShown
    /\ agreedToTerms
    /\ showConfirmModal' =
          IF \/ name = ""
             \/ Len(phone) # 10
             \/ serviceType = ""
             \/ removeGel = "null"
             \/ selectedDate = NoDate
             \/ selectedTime = NoSlot
          THEN showConfirmModal
          ELSE TRUE
    /\ UNCHANGED <<storeVars, resolverVars, historyVars, calVars, submitVars,
                   identityVars, formVars, submitting, submitted, alerts>>

\* the booking button (disabled = submitting || !agreedToTerms) and
\* handlePreSubmit
handlePreSubmit ==
    /\ formShown
    /\ ~(submitting \/ ~agreedToTerms)
    /\ showConfirmModal' =
          IF \/ name = ""
             \/ Len(phone) # 10
             \/ serviceType = ""
             \/ removeGel = "null"
             \/ ~agreedToTerms
             \/ selectedDate = NoDate
             \/ selectedTime = NoSlot
          THEN showConfirmModal
          ELSE TRUE
    /\ UNCHANGED <<storeVars, resolverVars, historyVars, calVars, submitVars,
                   identityVars, formVars, submitting, submitted, alerts>>

\* the backdrop, the close button and the cancel button of the dialog
closeConfirmModal ==
    /\ formShown
    /\ showConfirmModal
    /\ showConfirmModal' = FALSE
    /\ UNCHANGED <<storeVars, resolverVars, historyVars, calVars, submitVars,
                   identityVars, formVars, submitting, submitted, alerts>>

\* the confirm button of the dialog (disabled = submitting) and
\* handleFinalSubmit up to the await of submitBooking
handleFinalSubmit ==
    /\ formShown
    /\ showConfirmModal
    /\ ~submitting
    /\ submitting' = TRUE
    /\ showConfirmModal' = FALSE
    /\ startSubmit([userId |-> userId, memberCode |-> memberCode,
                    date |-> dateKey(selectedDate), time |-> selectedTime,
                    name |-> name, phone |-> phone, serviceType |-> serviceType,
                    removeGel |-> removeGel, lineDisplayName |-> lineDisplayName],
                   "app")
    /\ UNCHANGED <<storeVars, resolverVars, historyVars, calVars, customers, webhook,
                   identityVars, formVars, submitted, alerts>>

\* window.location.reload(), or the page opened again: the session starts
\* over for the same user
Reload ==
    /\ submission.pc = "idle"
    /\ loads < MaxLoads
    /\ loads' = loads + 1
    /\ pageLoad
    /\ unmountCalendar
    /\ UNCHANGED <<storeVars, resolverVars, historyVars, clock, submitVars, userId,
                   lineDisplayName>>

----------------------------------------------------------------------------
(* Specifications *)

ResolverIdle ==
    /\ request = <<0, 0>>
    /\ impl = "none"
    /\ fetchFail = [cfg |-> FALSE, occ |-> FALSE]
    /\ outcome = [status |-> "none", records |-> <<>>]
    /\ respConfig = <<>>
    /\ dirty = FALSE
    /\ repeat = "no"

CalendarIdle ==
    /\ clock = 1
    /\ currentViewDate = [year |-> 2024, month |-> 4]
    /\ availability = << >>
    /\ loading = FALSE
    /\ error = FALSE
    /\ inflight = <<>>
    /\ stale = [pending |-> <<>>, settled |-> FALSE]
    /\ activeDateForSlots = NoDate
    /\ selectedDate = NoDate
    /\ selectedTime = NoSlot

SubmitIdle ==
    /\ webhook = <<>>
    /\ submission = [pc |-> "idle", caller |-> "api", data |-> NoData,
                     payload |-> [user_id |-> "", name |-> "", phone |-> <<>>,
                                  updated_at |-> 0],
                     calls |-> <<>>,
                     customerError |-> FALSE, bookingError |-> FALSE,
                     notify |-> "none", result |-> "none"]
    /\ submissions = 0

\* the form of a session that is past its page load, nothing filled in
AppIdle ==
    /\ appLoading = FALSE
    /\ userId = "U1"
    /\ memberCode = "CN-2345"
    /\ lineDisplayName = ""
    /\ isBlacklisted = FALSE
    /\ isReturningUser = FALSE
    /\ name = ""
    /\ phone = <<>>
    /\ serviceType = ""
    /\ removeGel = "null"
    /\ agreedToTerms = FALSE
    /\ submitting = FALSE
    /\ submitted = FALSE
    /\ showConfirmModal = FALSE
    /\ alerts = <<>>
    /\ loads = 1

\* the resolver called against a store that is written concurrently
Init ==
    /\ availabilities = InitialAvailabilities
    /\ bookings = <<>>
    /\ ResolverIdle
    /\ CalendarIdle
    /\ customers = <<OtherCustomer>>
    /\ SubmitIdle
    /\ AppIdle

\* the outcomes of the two fetches of one call: the occupied-slots fetch is
\* only issued once the configured-slots fetch has succeeded
FetchOutcomes == {<<FALSE, FALSE>>, <<FALSE, TRUE>>, <<TRUE, FALSE>>}

Next ==
    \/ \E slots \in SlotLists : AdminSetAvailability(D20, slots)
    \/ \E k \in BookingKeys : InsertBooking(k[1], k[2])
    \/ \E r \in Requests, f \in FetchOutcomes : Resolve(r[1], r[2], f[1], f[2])

Spec == Init /\ [][Next]_vars

\* the same with the earlier generation of the resolver, whose two fetches
\* are both always issued
NextV1 ==
    \/ \E slots \in SlotLists : AdminSetAvailability(D20, slots)
    \/ \E k \in BookingKeys : InsertBooking(k[1], k[2])
    \/ \E r \in Requests, cfgError \in BOOLEAN, occError \in BOOLEAN :
          ResolveV1(r[1], r[2], cfgError, occError)

SpecV1 == Init /\ [][NextV1]_vars

\* the calendar once mounted: the month of today is displayed and its
\* loadData awaits the fetch
InitCalendar ==
    /\ availabilities = CalendarAvailabilities
    /\ bookings = CalendarBookings
    /\ ResolverIdle
    /\ customers = <<OtherCustomer>>
    /\ SubmitIdle
    /\ AppIdle
    /\ clock \in InitialClock
    /\ currentViewDate = [year |-> Clock[clock].year, month |-> Clock[clock].month]
    /\ availability = << >>
    /\ loading = TRUE
    /\ error = FALSE
    /\ inflight = <<currentViewDate>>
    /\ stale = [pending |-> <<FALSE>>, settled |-> FALSE]
    /\ activeDateForSlots = NoDate
    /\ selectedDate = NoDate
    /\ selectedTime = NoSlot

NextCalendar ==
    \/ handlePrevMonth
    \/ handleNextMonth
    \/ \E i \in 1..MaxInflight, f \in FetchOutcomes : loadDataSettle(i, f[1], f[2])
    \/ \E day \in daysInMonth : handleDateClick(day)
    \/ \E slot \in {S0900, S1100, S1530, S2000} : handleSlotClick(slot)
    \/ Rerender

SpecCalendar == InitCalendar /\ [][NextCalendar]_vars

\* submitBooking called with any draft against a customers table in any of
\* its initial contents, each write failing or not
InitSubmit ==
    /\ availabilities = CalendarAvailabilities
    /\ bookings = CalendarBookings
    /\ ResolverIdle
    /\ CalendarIdle
    /\ customers \in InitialCustomers
    /\ SubmitIdle
    /\ AppIdle

NextSubmit ==
    \/ \E data \in Drafts : submitBooking(data)
    \/ \E customerError \in BOOLEAN : customerUpsertSettle(customerError)
    \/ \E bookingError \in BOOLEAN, notify \in NotifyOutcomes :
          bookingInsertSettle(bookingError, notify)

SpecSubmit == InitSubmit /\ [][NextSubmit]_vars

\* a session from its page load on: the profile lookup, the form with the
\* calendar of the month of today, the submission, and page loads again
InitApp ==
    /\ availabilities = CalendarAvailabilities
    /\ bookings = CalendarBookings
    /\ ResolverIdle
    /\ CalendarIdle
    /\ \E s \in Sessions : customers = s[1] /\ lineDisplayName = s[2]
    /\ SubmitIdle
    /\ appLoading = TRUE
    /\ userId = "U1"
    /\ memberCode = NoCode
    /\ isBlacklisted = FALSE
    /\ isReturningUser = FALSE
    /\ name = ""
    /\ phone = <<>>
    /\ serviceType = ""
    /\ removeGel = "null"
    /\ agreedToTerms = FALSE
    /\ submitting = FALSE
    /\ submitted = FALSE
    /\ showConfirmModal = FALSE
    /\ alerts = <<>>
    /\ loads = 1

NextApp ==
    \/ \E lookup \in Lookups, code \in GeneratedCodes : initSettle(lookup, code)
    \/ \E value \in TypedNames : setName(value)
    \/ \E raw \in RawPhones : handlePhoneChange(raw)
    \/ setServiceType("classic_special")
    \/ setRemoveGel("false")
    \/ \E checked \in BOOLEAN : setAgreedToTerms(checked)
    \/ (formShown /\ loadDataSettle(1, FALSE, FALSE))
    \/ (formShown /\ handleDateClick(Day20))
    \/ (formShown /\ handleSlotClick(S1100))
    \/ handlePreSubmit
    \/ closeConfirmModal
    \/ handleFinalSubmit
    \/ \E customerError \in BOOLEAN : customerUpsertSettle(customerError)
    \/ \E bookingError \in BOOLEAN, notify \in NotifyOutcomes :
          bookingInsertSettle(bookingError, notify)
    \/ Reload

SpecApp == InitApp /\ [][NextApp]_vars

\* the session of the known customer U1 next to another client that calls
\* submitBooking for the same date and time
InitRace ==
    /\ InitApp
    /\ customerRows(customers, "U1") # {}
    /\ \A i \in customerRows(customers, "U1") :
          ~customers[i].is_blacklisted /\ customers[i].member_code # NoCode

NextRace ==
    \/ \E code \in GeneratedCodes : initSettle("answered", code)
    \/ setServiceType("classic_special")
    \/ setRemoveGel("false")
    \/ setAgreedToTerms(TRUE)
    \/ (formShown /\ loadDataSettle(1, FALSE, FALSE))
    \/ (formShown /\ handleDateClick(Day20))
    \/ (formShown /\ handleSlotClick(S1100))
    \/ handlePreSubmit
    \/ handleFinalSubmit
    \/ submitBooking(OtherDraft)
    \/ \E customerError \in BOOLEAN : customerUpsertSettle(customerError)
    \/ \E bookingError \in BOOLEAN, notify \in NotifyOutcomes :
          bookingInsertSettle(bookingError, notify)

SpecRace == InitRace /\ [][NextRace]_vars

\* the session of the known customer U1 alone: the form, its dialog, the
\* submission and page loads
NextFlow ==
    \/ \E code \in GeneratedCodes : initSettle("answered", code)
    \/ setServiceType("classic_special")
    \/ setRemoveGel("false")
    \/ \E checked \in BOOLEAN : setAgreedToTerms(checked)
    \/ (formShown /\ loadDataSettle(1, FALSE, FALSE))
    \/ (formShown /\ handleDateClick(Day20))
    \/ (formShown /\ handleSlotClick(S1100))
    \/ handlePreSubmit
    \/ closeConfirmModal
    \/ handleFinalSubmit
    \/ \E customerError \in BOOLEAN : customerUpsertSettle(customerError)
    \/ \E bookingError \in BOOLEAN, notify \in NotifyOutcomes :
          bookingInsertSettle(bookingError, notify)
    \/ Reload

SpecFlow == InitRace /\ [][NextFlow]_vars

----------------------------------------------------------------------------
(* Properties of the resolver *)

SeqSet(seq) == {seq[i] : i \in 1..Len(seq)}

StrictlyAscending(seq) == \A i \in 1..(Len(seq) - 1) : StrLess(seq[i], seq[i + 1])

\* the slot list stored for a date, empty when the date has no row
storedSlots(date) ==
    IF \E i \in 1..Len(availabilities) : availabilities[i].date = date
    THEN availabilities[CHOOSE i \in 1..Len(availabilities) :
                            availabilities[i].date = date].slots
    ELSE <<>>

\* the set of slots of the non-cancelled bookings stored for a date
storedOccupied(date) ==
    {bookings[i].booking_time :
        i \in {j \in 1..Len(bookings) : /\ bookings[j].booking_date = date
                                        /\ bookings[j].status # "cancelled"}}

\* the last call returned records and the store is still as that call read it
Fresh == outcome.status = "ok" /\ ~dirty

\* the number of days of the requested months, from the calendar
CalendarDays(r) ==
    CASE r = <<2024, 4>> -> 31
      [] r = <<2024, 5>> -> 30
      [] r = <<2024, 1>> -> 29
      [] r = <<2023, 1>> -> 28
      [] r = <<1900, 1>> -> 28
      [] r = <<2023, 11>> -> 31
      [] OTHER -> 0

May2024 == <<2024, 4>>

\* C1: a successful fetchAvailability(year, month) returns one record per
\* calendar day of the month, all dated in that month, strictly ascending
ThmC1_OneRecordPerDay ==
    outcome.status = "ok" =>
        LET recs == outcome.records
            first == formatDate(request[1], request[2], 1)
        IN  /\ Len(recs) = CalendarDays(request)
            /\ StrictlyAscending([i \in 1..Len(recs) |-> recs[i].date])
            /\ \A i \in 1..Len(recs) :
                  /\ Len(recs[i].date) = 10
                  /\ SubSeq(recs[i].date, 1, 8) = SubSeq(first, 1, 8)
                  /\ StrLeq(first, recs[i].date)

\* C1 witness: February 1900 resolved to 28 records while bookings exist
WitC1_FebruaryOfCenturyYear ==
    /\ outcome.status = "ok"
    /\ request = <<1900, 1>>
    /\ Len(outcome.records) = 28
    /\ bookings # <<>>

\* C2: a day with no row or with an empty list gets exactly the closed record,
\* whatever is booked on it, and no record has totalSlots = 0 and is open
ThmC2_RestDayRecord ==
    /\ outcome.status = "ok" =>
          \A i \in 1..Len(outcome.records) :
              outcome.records[i].totalSlots = 0 =>
                  /\ ~outcome.records[i].isAvailable
                  /\ outcome.records[i].availableSlots = <<>>
    /\ Fresh =>
          \A i \in 1..Len(outcome.records) :
              LET rec == outcome.records[i]
              IN  Len(storedSlots(rec.date)) = 0 =>
                      rec = [date |-> rec.date, isAvailable |-> FALSE, bookedCount |-> 0,
                             availableSlots |-> <<>>, totalSlots |-> 0]

\* C2 witness: May resolved with an empty list stored for D20 and no row for
\* D22, both days having bookings that the occupied-slots fetch returned
WitC2_EmptyAndAbsentDayBooked ==
    /\ Fresh
    /\ ~fetchFail.occ
    /\ request = May2024
    /\ \E i \in 1..Len(availabilities) :
          availabilities[i].date = D20 /\ availabilities[i].slots = <<>>
    /\ storedOccupied(D20) # {}
    /\ storedOccupied(D22) # {}
    /\ outcome.records[20] = closedRecord(D20)
    /\ outcome.records[22] = closedRecord(D22)

\* C3: on a configured day availableSlots is the set difference C \ O in
\* ascending code-unit order, isAvailable says it is non-empty, totalSlots is
\* |C|, and the merge succeeds whenever the configured-slots fetch does
ThmC3_AvailableIsSortedDifference ==
    /\ (outcome.status # "none" /\ ~fetchFail.cfg) => outcome.status = "ok"
    /\ (Fresh /\ ~fetchFail.occ) =>
          \A i \in 1..Len(outcome.records) :
              LET rec == outcome.records[i]
                  C == SeqSet(storedSlots(rec.date))
                  O == storedOccupied(rec.date)
              IN  C # {} =>
                      /\ SeqSet(rec.availableSlots) = C \ O
                      /\ StrictlyAscending(rec.availableSlots)
                      /\ rec.isAvailable = (C \ O # {})
                      /\ rec.totalSlots = Cardinality(C)

\* C3 witness: D20 has three slots and "11:00" booked twice, D21 has its
\* unsorted list with "9:30", which sorts after "20:00"
WitC3_DuplicateOccupiedAndUnsorted ==
    /\ Fresh
    /\ ~fetchFail.occ
    /\ request = May2024
    /\ Len(bookings) = 2
    /\ \A i \in 1..2 : bookings[i].booking_date = D20 /\ bookings[i].booking_time = S1100
    /\ outcome.records[20].availableSlots = <<S1530, S2000>>
    /\ outcome.records[21].availableSlots = <<S1100, S2000, S930>>

\* C4: on a configured day bookedCount is |O \cap C| counted as sets, so it
\* never exceeds totalSlots
CexC4_BookedCountIsIntersection ==
    (Fresh /\ ~fetchFail.occ) =>
        \A i \in 1..Len(outcome.records) :
            LET rec == outcome.records[i]
                C == SeqSet(storedSlots(rec.date))
                O == storedOccupied(rec.date)
            IN  C # {} =>
                    /\ rec.bookedCount = Cardinality(O \cap C)
                    /\ rec.bookedCount <= rec.totalSlots

\* C5: a call whose configured-slots fetch returned an error fails and returns
\* no records
CexC5_ConfigErrorFails ==
    fetchFail.cfg => (outcome.status = "error" /\ outcome.records = <<>>)

\* C6: when only the occupied-slots fetch fails, the call succeeds and every
\* configured day has all its slots free, sorted, and bookedCount 0
ThmC6_OccupancyErrorDegrades ==
    /\ (outcome.status # "none" /\ ~fetchFail.cfg) => outcome.status = "ok"
    /\ (Fresh /\ fetchFail.occ) =>
          \A i \in 1..Len(outcome.records) :
              LET rec == outcome.records[i]
                  C == storedSlots(rec.date)
              IN  Len(C) > 0 =>
                      /\ SeqSet(rec.availableSlots) = SeqSet(C)
                      /\ Len(rec.availableSlots) = Len(C)
                      /\ StrictlyAscending(rec.availableSlots)
                      /\ rec.bookedCount = 0
                      /\ rec.isAvailable

\* C6 witness: May resolved with the occupied-slots fetch failed while D20 is
\* configured and has a booked slot
WitC6_DegradedWithBookings ==
    /\ Fresh
    /\ fetchFail.occ
    /\ request = May2024
    /\ S1100 \in SeqSet(storedSlots(D20))
    /\ S1100 \in storedOccupied(D20)
    /\ S1100 \in SeqSet(outcome.records[20].availableSlots)

----------------------------------------------------------------------------
(* Properties of the calendar *)

\* the minute of the day a slot names, from the clock face
MinuteOfDay(slot) ==
    CASE slot = S0900 -> 9 * 60
      [] slot = S1100 -> 11 * 60
      [] slot = S1530 -> 15 * 60 + 30
      [] slot = S2000 -> 20 * 60
      [] slot = S930 -> 9 * 60 + 30
      [] OTHER -> 0

\* the instant day@slot is strictly more than 48 hours after the instant of
\* the render
AfterLead(day, slot) ==
    toMinutes(day.year, day.month, day.date, 0, 0) + MinuteOfDay(slot)
        > todayMinutes + 48 * 60

\* the day is strictly before the calendar day of the render
BeforeToday(day) ==
    \/ day.year < today.year
    \/ day.year = today.year /\ day.month < today.month
    \/ day.year = today.year /\ day.month = today.month /\ day.date < today.date

LoadedSlots(day) ==
    IF dateKey(day) \in DOMAIN availability
    THEN SeqSet(availability[dateKey(day)].availableSlots)
    ELSE {}

\* C8: a step that selects a slot selects one of the open day that is
\* strictly more than 48 hours after the render's now, and an enabled day
\* button has such a slot among its loaded free slots
ThmC8_SelectableOnlyAfterLead ==
    /\ [][(selectedTime' # selectedTime /\ selectedTime' # NoSlot) =>
              /\ activeDateForSlots # NoDate
              /\ selectedTime' \in LoadedSlots(activeDateForSlots)
              /\ AfterLead(activeDateForSlots, selectedTime')
         ]_vars
    /\ [](\A day \in daysInMonth :
              ~isDisabled(day) =>
                  \E slot \in LoadedSlots(day) : AfterLead(day, slot))

\* C8 witness: at 2024-05-18T11:00 the panel of 2024-05-20 is open, its free
\* slot "11:00" is exactly 48 hours away, and a slot was selected before
WitC8_SlotExactlyAtLead ==
    /\ gridShown
    /\ clock = 3
    /\ activeDateForSlots = Day20
    /\ S1100 \in LoadedSlots(Day20)
    /\ toMinutes(2024, 4, 20, 11, 0) = todayMinutes + 48 * 60
    /\ selectedDate = Day20

\* C9 as stated: at 2024-05-18T10:00, with the panel of 2024-05-20 open and
\* "09:00" free on it, the slot 2024-05-20T09:00 is offerable and the slot
\* 2024-05-19T09:00 is not
CexC9_ScenarioAsStated ==
    (/\ clock = 2
     /\ gridShown
     /\ activeDateForSlots = Day20
     /\ S0900 \in LoadedSlots(Day20))
        => (checkSlotTime(Day20, S0900) /\ ~checkSlotTime(Day19, S0900))

\* C9 amended: at 2024-05-18T10:00 the slots 2024-05-20T09:00 (47 hours away)
\* and 2024-05-19T09:00 are not offerable, the slot 2024-05-20T11:00 is; of
\* the loaded days 19 and 20 only the 20th can be clicked
ThmC9_ScenarioLead48 ==
    clock = 2 =>
        /\ ~checkSlotTime(Day20, S0900)
        /\ ~checkSlotTime(Day19, S0900)
        /\ checkSlotTime(Day20, S1100)
        /\ (dateKey(Day20) \in DOMAIN availability /\ S1100 \in LoadedSlots(Day20))
              => (isDisabled(Day19) /\ ~isDisabled(Day20))

\* C9 witness: at 2024-05-18T10:00 the panel of 2024-05-20 is open with
\* "09:00" and "11:00" free, and 2024-05-19 is loaded with "09:00" free
WitC9_PanelOfThe20th ==
    /\ clock = 2
    /\ gridShown
    /\ activeDateForSlots = Day20
    /\ {S0900, S1100} \subseteq LoadedSlots(Day20)
    /\ S0900 \in LoadedSlots(Day19)

\* C10: a day strictly before the render's calendar day has a disabled
\* button, and no step opens or selects such a day
ThmC10_PastDayNeverSelectable ==
    [][/\ \A day \in daysInMonth' : BeforeToday(day)' => isDisabled(day)'
       /\ (activeDateForSlots' # activeDateForSlots /\ activeDateForSlots' # NoDate)
              => ~BeforeToday(activeDateForSlots')
       /\ selectedDate' # selectedDate => ~BeforeToday(selectedDate')
      ]_vars

\* C10 witness: on 2024-05-18 the grid shows 2024-05-13 loaded with one of one
\* slots free, its button disabled, after a day was selected
WitC10_PastDayWithFreeSlot ==
    /\ gridShown
    /\ clock = 2
    /\ isSameMonth(currentViewDate, Day13)
    /\ dateKey(Day13) \in DOMAIN availability
    /\ availability[dateKey(Day13)].totalSlots > 0
    /\ availability[dateKey(Day13)].availableSlots # <<>>
    /\ isDisabled(Day13)
    /\ selectedDate # NoDate

\* the loaded record of the day has totalSlots > 0 and one of its free slots
\* is strictly more than 48 hours after the render's now
ConfiguredAndBookable(day) ==
    /\ dateKey(day) \in DOMAIN availability
    /\ availability[dateKey(day)].totalSlots > 0
    /\ \E slot \in LoadedSlots(day) : AfterLead(day, slot)

\* C11: an enabled day button has a loaded record with totalSlots > 0 and a
\* free slot after the cutoff; a configured day whose slots are all occupied
\* or all within the cutoff is disabled; a day click opens only such a day
ThmC11_SelectableNeedsBookableSlot ==
    /\ [](\A day \in daysInMonth :
             /\ ~isDisabled(day) => ConfiguredAndBookable(day)
             /\ (/\ dateKey(day) \in DOMAIN availability
                 /\ availability[dateKey(day)].totalSlots > 0
                 /\ \A slot \in LoadedSlots(day) : ~AfterLead(day, slot))
                    => isDisabled(day))
    /\ [][(activeDateForSlots' # activeDateForSlots /\ activeDateForSlots' # NoDate)
              => ConfiguredAndBookable(activeDateForSlots')
         ]_vars

\* C11 witness: at 2024-05-18T10:00 the grid of May shows 2024-05-19 (its one
\* free slot within the cutoff) and 2024-05-22 (its one slot occupied) both
\* disabled, and 2024-05-20 was clicked
WitC11_FullAndWithinCutoffDays ==
    /\ gridShown
    /\ clock = 2
    /\ isSameMonth(currentViewDate, Day19)
    /\ LoadedSlots(Day19) = {S0900}
    /\ isDisabled(Day19)
    /\ dateKey([year |-> 2024, month |-> 4, date |-> 22]) \in DOMAIN availability
    /\ availability[D22].totalSlots = 1
    /\ availability[D22].availableSlots = <<>>
    /\ isDisabled([year |-> 2024, month |-> 4, date |-> 22])
    /\ activeDateForSlots = Day20

\* C12: the displayed month is the month of today, or the month after it
\* and then today's day of the month is at least 15
CexC12_DisplayedMonthInWindow ==
    LET thisMonth == [year |-> today.year, month |-> today.month]
    IN  \/ isSameMonth(currentViewDate, thisMonth)
        \/ /\ isSameMonth(currentViewDate, addMonths(thisMonth, 1))
           /\ today.date >= NextMonthDay

\* C20: when the call that settles was superseded (a call issued after it
\* for the same month has already merged its records), its result is
\* discarded: the loaded records stay as they are
CexC20_StaleResultDiscarded ==
    [][(Len(inflight') < Len(inflight) /\ stale'.settled)
          => availability' = availability]_vars

----------------------------------------------------------------------------
(* Properties of the submission *)

\* the booking rows the store started with
BaseBookings == Len(CalendarBookings)

\* C13: a failed customer upsert ends the call with CustomerWriteError, the
\* insert not issued, no row written and nothing posted; whenever the insert
\* of a call has been issued its upsert had succeeded and written the row
ThmC13_UpsertFailureAborts ==
    /\ [](/\ submission.customerError =>
                /\ submission.pc = "idle"
                /\ submission.calls = <<"upsert">>
                /\ submission.result = "CustomerWriteError"
          /\ (\E k \in 1..Len(submission.calls) : submission.calls[k] = "insert") =>
                /\ ~submission.customerError
                /\ submission.calls[1] = "upsert"
                /\ \E i \in customerRows(customers, submission.data.userId) :
                      customers[i].updated_at = submission.payload.updated_at)
    /\ [][(submission.pc = "upsert" /\ submission'.customerError) =>
              /\ bookings' = bookings
              /\ customers' = customers
              /\ webhook' = webhook
         ]_vars
    /\ [][bookings' # bookings =>
              (submission.pc = "insert" /\ ~submission.customerError)]_vars

\* C13 witness: after a first submission that succeeded, the second failed at
\* the customer upsert and left only the first booking
WitC13_SecondSubmissionFailsAtUpsert ==
    /\ submissions = 2
    /\ submission.result = "CustomerWriteError"
    /\ Len(bookings) = BaseBookings + 1

\* C14: a call that failed at the booking insert ends with BookingWriteError,
\* the failing step writes no booking and posts nothing, and the customer row
\* carries the name, phone and timestamp of the call's upsert
ThmC14_InsertFailureKeepsCustomer ==
    /\ [](submission.result = "BookingWriteError" =>
             /\ submission.pc = "idle"
             /\ ~submission.customerError
             /\ \E i \in customerRows(customers, submission.data.userId) :
                   /\ customers[i].name = submission.data.name
                   /\ customers[i].phone = submission.data.phone
                   /\ customers[i].updated_at = submission.payload.updated_at)
    /\ [][(submission.pc = "insert" /\ submission'.bookingError) =>
              /\ submission'.result = "BookingWriteError"
              /\ bookings' = bookings
              /\ customers' = customers
              /\ webhook' = webhook
         ]_vars

\* C14 witness: the known customer Amy submitted as Bea, the insert failed,
\* no booking was added and the row now says Bea
WitC14_RenamedWithoutBooking ==
    /\ submission.result = "BookingWriteError"
    /\ Len(bookings) = BaseBookings
    /\ \E i \in customerRows(customers, "U1") :
          /\ customers[i].is_blacklisted
          /\ customers[i].name = "Bea"
          /\ customers[i].updated_at = submissions

\* C15: a finished call returned success exactly if neither write failed,
\* and a booking insert that succeeded adds the row and returns success
\* whatever becomes of the notification
ThmC15_SuccessIffBothWrites ==
    /\ []((submission.pc = "idle" /\ submission.result # "none") =>
             /\ submission.result \in {"success", "CustomerWriteError",
                                       "BookingWriteError"}
             /\ submission.result = "success" <=>
                   /\ ~submission.customerError
                   /\ ~submission.bookingError
                   /\ \E k \in 1..Len(submission.calls) : submission.calls[k] = "insert")
    /\ [][(submission.pc = "insert" /\ ~submission'.bookingError) =>
              /\ submission'.result = "success"
              /\ bookings' = Append(bookings, bookingPayload(submission.data))
              /\ customers' = customers
         ]_vars

\* C15 witness: two calls succeeded, the first posted its notification, the
\* second posted none
WitC15_SuccessWithoutNotification ==
    /\ submissions = 2
    /\ submission.result = "success"
    /\ submission.calls = <<"upsert", "insert">>
    /\ Len(webhook) = 1
    /\ Len(bookings) = BaseBookings + 2

\* C16: the payload of a draft with an empty memberCode has no member_code
\* field, and the upsert of such a draft leaves every stored member code as
\* it was
ThmC16_EmptyCodeKeepsStoredCode ==
    /\ [](submission.data.memberCode = NoCode =>
             "member_code" \notin DOMAIN submission.payload)
    /\ [][(submission.pc = "upsert" /\ submission.data.memberCode = NoCode) =>
              \A uid \in UserIds : codeOf(customers', uid) = codeOf(customers, uid)
         ]_vars

\* C16 witness: the upsert of a draft with an empty memberCode has written the
\* row of a customer who still has the stored code
WitC16_EmptyCodeOnKnownCustomer ==
    /\ submission.data.memberCode = NoCode
    /\ submission.pc \in {"insert", "idle"}
    /\ ~submission.customerError
    /\ \E i \in customerRows(customers, "U1") :
          /\ customers[i].member_code = StoredCode
          /\ customers[i].updated_at = submissions
          /\ submissions >= 1

\* C18: no step changes is_blacklisted of an existing customer row
ThmC18_BlacklistFlagUntouched ==
    [][\A i \in 1..Len(customers) :
          \E j \in customerRows(customers', customers[i].user_id) :
              customers'[j].is_blacklisted = customers[i].is_blacklisted
      ]_vars

\* C18 witness: a call for the blacklisted customer U1 succeeded and the row,
\* written by its upsert, is still blacklisted
WitC18_BlacklistedRowUpserted ==
    /\ submission.result = "success"
    /\ \E i \in customerRows(customers, "U1") :
          /\ customers[i].is_blacklisted
          /\ customers[i].updated_at = submissions
          /\ submissions >= 1

----------------------------------------------------------------------------
(* Properties of the session *)

\* C17: no step changes a stored member code that is not empty
CexC17_MemberCodeNeverOverwritten ==
    [][\A uid \in UserIds :
          codeOf(customers, uid) # NoCode =>
              codeOf(customers', uid) = codeOf(customers, uid)
      ]_vars

\* C19: in the session of a user whose stored row is blacklisted the form is
\* not rendered and no submission has been issued
CexC19_BlacklistedNeverSeesForm ==
    (\E i \in customerRows(customers, userId) : customers[i].is_blacklisted) =>
        /\ ~formShown
        /\ submissions = 0

----------------------------------------------------------------------------
(* Properties of the calendar while fetches are pending or have failed *)

\* the days of the displayed month without a loaded record
unloadedDays == {day \in daysInMonth : dateKey(day) \notin DOMAIN availability}

\* C21: whenever the grid is rendered, a day of the displayed month without
\* a loaded record is disabled and is not marked as a rest day
CexC21_UnloadedDayNotClosed ==
    gridShown => \A day \in unloadedDays : isDisabled(day) /\ ~isRestDay(day)

\* the pending calls whose settling turns inflight into its next value
settling == {i \in 1..Len(inflight) :
                inflight' = SubSeq(inflight, 1, i - 1)
                            \o SubSeq(inflight, i + 1, Len(inflight))}

\* C22: while the error state is shown no day can be selected, and the error
\* state is entered only by the failure of a fetch for the displayed month
CexC22_ErrorOnlyForDisplayedMonth ==
    /\ [][(~error /\ error') =>
              \E i \in settling : inflight[i] = currentViewDate]_vars
    /\ [][error => /\ selectedDate' = selectedDate
                   /\ activeDateForSlots' = activeDateForSlots]_vars

\* re-invoking the fetch from the calendar: a month button
retryFetch == handlePrevMonth \/ handleNextMonth

\* C29: in the error state the fetch can be invoked again from the calendar,
\* and a fetch that succeeds while the error state is shown clears it
CexC29_ErrorStateNotAbsorbing ==
    /\ [](error => ENABLED retryFetch)
    /\ [][(error /\ availability' # availability) => ~error']_vars

----------------------------------------------------------------------------
(* Properties of the selection *)

\* C30: a selected time comes with a selected date; while the slot panel is
\* open it is the panel of the selected date and no time is selected; a step
\* that selects a time keeps the date and takes a slot of the loaded record
\* of that date that passes the cutoff; a step that changes the date clears
\* the time
ThmC30_TimeBelongsToDate ==
    /\ [](/\ selectedTime # NoSlot => selectedDate # NoDate
          /\ activeDateForSlots # NoDate =>
                (selectedDate = activeDateForSlots /\ selectedTime = NoSlot))
    /\ [][(selectedTime' # selectedTime /\ selectedTime' # NoSlot) =>
              /\ selectedDate' = selectedDate
              /\ selectedDate # NoDate
              /\ selectedTime' \in LoadedSlots(selectedDate)
              /\ checkSlotTime(selectedDate, selectedTime')]_vars
    /\ [][selectedDate' # selectedDate => selectedTime' = NoSlot]_vars

\* C30 witness: after day clicks, a slot click and a month change, 20:00 is
\* selected for May 20 while June is displayed and loaded
WitC30_TimeSelectedAcrossMonths ==
    /\ selectedDate = Day20
    /\ selectedTime = S2000
    /\ activeDateForSlots = NoDate
    /\ currentViewDate.month = 5
    /\ gridShown
    /\ unloadedDays = {}

----------------------------------------------------------------------------
(* Properties of the rows a submission writes *)

\* C23: a step that changes the bookings table appends one row to it, the
\* rows before it as they were, and the row is confirmed, with a zero
\* modification count and the user, name and phone of the draft of the call
ThmC23_BookingRowIsSnapshot ==
    [][bookings' # bookings =>
          /\ Len(bookings') = Len(bookings) + 1
          /\ SubSeq(bookings', 1, Len(bookings)) = bookings
          /\ LET row == bookings'[Len(bookings')]
             IN  /\ row.status = "confirmed"
                 /\ row.modification_count = 0
                 /\ row.user_id = submission.data.userId
                 /\ row.customer_name_snapshot = submission.data.name
                 /\ row.customer_phone_snapshot = submission.data.phone
                 /\ row.booking_date = submission.data.date
                 /\ row.booking_time = submission.data.time
      ]_vars

\* C23 witness: U1 booked as Amy and then as Bea; the customer row says Bea
\* and the first booking still says Amy
WitC23_EarlierSnapshotKept ==
    /\ Len(bookings) = BaseBookings + 2
    /\ bookings[BaseBookings + 1].customer_name_snapshot = "Amy"
    /\ bookings[BaseBookings + 2].customer_name_snapshot = "Bea"
    /\ \E i \in customerRows(customers, "U1") : customers[i].name = "Bea"

\* C24 as stated: the webhook receives a POST only in the step in which the
\* booking insert of a call succeeds, and every such step posts exactly one
CexC24_ExactlyOneNotification ==
    /\ [][webhook' # webhook =>
              (submission.pc = "insert" /\ ~submission'.bookingError)]_vars
    /\ [][(submission.pc = "insert" /\ ~submission'.bookingError) =>
              Len(webhook') = Len(webhook) + 1]_vars

\* C24: the webhook receives a POST only in the step in which the booking
\* insert of a call succeeds and adds its row; such a step posts one payload,
\* the one of the call, if a webhook is configured and the payload can be
\* built, and nothing otherwise; a call that failed at a write posted nothing
ThmC24_AtMostOneNotification ==
    /\ [][webhook' # webhook =>
              /\ submission.pc = "insert"
              /\ ~submission'.bookingError
              /\ bookings' = Append(bookings, bookingPayload(submission.data))
         ]_vars
    /\ [][(submission.pc = "insert" /\ ~submission'.bookingError) =>
              webhook' = IF submission'.notify \in {"noWebhook", "payloadThrows"}
                         THEN webhook
                         ELSE Append(webhook, n8nPayload(submission.data))]_vars
    /\ [](submission.result \in {"CustomerWriteError", "BookingWriteError"} =>
             \A k \in 1..Len(submission.calls) : submission.calls[k] # "notify")

\* C24 witness: a call whose insert failed posted nothing and the call
\* before it, which succeeded, posted one notification
WitC24_OnePostAfterFailedRetry ==
    /\ submissions = 2
    /\ submission.result = "BookingWriteError"
    /\ Len(bookings) = BaseBookings + 1
    /\ Len(webhook) = 1

\* C25: no user_id has two customer rows; only an upsert that succeeds
\* changes the table; it adds a row exactly if the user_id of the draft had
\* none, and afterwards the row of that user_id has the name and phone of
\* the draft
ThmC25_OneCustomerRecord ==
    /\ [](\A uid \in UserIds : Cardinality(customerRows(customers, uid)) <= 1)
    /\ [][customers' # customers =>
              (submission.pc = "upsert" /\ ~submission'.customerError)]_vars
    /\ [][(submission.pc = "upsert" /\ ~submission'.customerError) =>
              /\ Len(customers') =
                    IF customerRows(customers, submission.data.userId) = {}
                    THEN Len(customers) + 1 ELSE Len(customers)
              /\ \E i \in customerRows(customers', submission.data.userId) :
                    /\ customers'[i].name = submission.data.name
                    /\ customers'[i].phone = submission.data.phone
         ]_vars

\* C25 witness: after a call of U1 that added no booking and a retry as Bea
\* that succeeded, the table has one row of U1, written by the retry, with
\* the name Bea
WitC25_RetryKeepsOneRow ==
    /\ submissions = 2
    /\ submission.result = "success"
    /\ Len(bookings) = BaseBookings + 1
    /\ Len(customers) = 2
    /\ customers[2].user_id = "U1"
    /\ customers[2].name = "Bea"
    /\ customers[2].member_code = "CN-2345"
    /\ customers[2].updated_at = 2

----------------------------------------------------------------------------
(* Properties of two clients *)

\* the booking rows of a date and a time that are confirmed
confirmedRows(date, time) ==
    {i \in 1..Len(bookings) : /\ bookings[i].booking_date = date
                              /\ bookings[i].booking_time = time
                              /\ bookings[i].status = "confirmed"}

\* C26: starting a submission from the form starts no fetch and leaves the
\* loaded records alone, and a booking insert that the store does not fail
\* adds the row of the draft whatever rows the table has
ThmC26_InsertWithoutRecheck ==
    /\ [][(submitting' /\ ~submitting) =>
              /\ inflight' = inflight
              /\ availability' = availability
              /\ submission'.data.time = selectedTime
              /\ submission'.data.date = dateKey(selectedDate)]_vars
    /\ [][(submission.pc = "insert" /\ submission'.pc = "idle"
                                     /\ ~submission'.bookingError) =>
              /\ Len(bookings') = Len(bookings) + 1
              /\ bookings'[Len(bookings')].booking_date = submission.data.date
              /\ bookings'[Len(bookings')].booking_time = submission.data.time
              /\ bookings'[Len(bookings')].status = "confirmed"]_vars

\* C26 witness: the form loaded May with 11:00 free on the 20th, the other
\* client booked the 20th at 11:00, then the form's submission for the same
\* date and time succeeded: two confirmed rows for it, of two users
WitC26_DoubleBooking ==
    /\ Cardinality(confirmedRows(D20, S1100)) = 2
    /\ bookings[BaseBookings + 1].user_id = "U3"
    /\ bookings[BaseBookings + 2].user_id = "U1"
    /\ submission.caller = "app"
    /\ submission.result = "success"
    /\ submitted

----------------------------------------------------------------------------
(* Properties of the submission flow of a session *)

\* C27: submitting holds exactly while the call of the form is pending;
\* while it holds the dialog is closed and neither the booking button nor
\* the confirm button does anything; a call starts only from a state in
\* which submitting does not hold, and the step sets it and closes the dialog
ThmC27_OneSubmissionInFlight ==
    /\ [](submitting <=> submission.pc # "idle")
    /\ [](submitting => /\ ~showConfirmModal
                        /\ ~ENABLED handlePreSubmit
                        /\ ~ENABLED handleFinalSubmit)
    /\ [][submissions' # submissions =>
              /\ ~submitting
              /\ showConfirmModal
              /\ submitting'
              /\ ~showConfirmModal'
              /\ submissions' = submissions + 1]_vars

\* C27 witness: the second call of the session is pending at its insert
\* while the form is complete and the terms are agreed to
WitC27_SecondCallPending ==
    /\ submitting
    /\ submissions = 2
    /\ submission.pc = "insert"
    /\ formShown
    /\ agreedToTerms
    /\ selectedTime # NoSlot

\* the results with which submitBooking throws
Failures == {"CustomerWriteError", "BookingWriteError"}

\* C28: the step in which the call of the form fails leaves the form
\* rendered and as it was filled in, with submitting and submitted false,
\* and shows the one failure prompt whichever write failed; the form with the
\* terms agreed to then lets the booking button act again; the step in which
\* the call succeeds sets submitted and shows no prompt; while submitted
\* holds no button starts a call, and only a page load resets it
ThmC28_AfterFailureAndSuccess ==
    /\ [][(submitting /\ submission'.pc = "idle" /\ submission'.result \in Failures) =>
              /\ ~submitting'
              /\ ~submitted'
              /\ formShown'
              /\ alerts' = Append(alerts, FailurePrompt)
              /\ UNCHANGED <<formVars, selectedDate, selectedTime>>]_vars
    /\ [][(submitting /\ submission'.pc = "idle" /\ submission'.result = "success") =>
              /\ ~submitting'
              /\ submitted'
              /\ alerts' = alerts]_vars
    /\ []((formShown /\ ~submitting /\ agreedToTerms) => ENABLED handlePreSubmit)
    /\ [](submitted => /\ ~formShown
                       /\ ~ENABLED handlePreSubmit
                       /\ ~ENABLED handleFinalSubmit)
    /\ [][submissions' # submissions => ~submitted]_vars
    /\ [][(submitted /\ ~submitted') => loads' = loads + 1]_vars

\* C28 witness: the first call of the session failed, its prompt was shown,
\* and the retry from the same form succeeded
WitC28_RetrySucceeded ==
    /\ alerts = <<FailurePrompt>>
    /\ submissions = 2
    /\ submission.result = "success"
    /\ submitted
    /\ ~submitting

====
